---- MODULE Spec2Model ----
(***************************************************************************)
(* Model of the two Playwright verification scripts                        *)
(*   jules-scratch/verification/verify_page_load.py                        *)
(*   jules-scratch/verification/verify_age_verification.py                 *)
(* Each script is a process: the module body enters                        *)
(* `with sync_playwright() as playwright:` and calls run(playwright).      *)
(* run is a straight line of driver calls; a driver call either returns or *)
(* raises, and run has no try/except/finally, so a raise leaves run at     *)
(* once.  The page's behaviour in one run is an oracle (failAt, failWhy):  *)
(* the call that raises, if any, and the reason.  Processes are run one    *)
(* after the other; only the screenshot file survives a process.           *)
(***************************************************************************)
EXTENDS Integers, Sequences, FiniteSets, TLC

VARIABLES script, failAt, failWhy, runNo, proc, runState, pc, browser, page,
          url, attempts, log, files, exc, exitCode, stderr, results

vars == <<script, failAt, failWhy, runNo, proc, runState, pc, browser, page,
          url, attempts, log, files, exc, exitCode, stderr, results>>

\* Number of script processes started one after the other.
MaxRuns == 2

Scripts == {"verify_page_load", "verify_age_verification"}

TargetUrl == "http://localhost:9002"

ShotPath == "jules-scratch/verification/verification.png"

Paths == {ShotPath}

Op(kind, arg, line) == [kind |-> kind, arg |-> arg, line |-> line]

\* The driver calls of verify_page_load.run, in statement order.
PageLoadOps ==
  << Op("launch", "chromium", 5),
     Op("new_page", "", 6),
     Op("goto", TargetUrl, 7),
     Op("expect_title", "PlayNite", 10),
     Op("screenshot", ShotPath, 13),
     Op("close", "", 15) >>

\* The statements of verify_age_verification.run with day and month swapped.
AgeVerificationOpsDayFirst ==
  << Op("launch", "chromium", 5),
     Op("new_page", "", 6),
     Op("goto", TargetUrl, 7),
     Op("click", "combobox:day", 13),
     Op("click", "option:30", 14),
     Op("click", "combobox:month", 10),
     Op("click", "option:February", 11),
     Op("click", "combobox:year", 16),
     Op("click", "option:2000", 17),
     Op("click", "button:enter", 20),
     Op("expect_visible", "form-error", 24),
     Op("expect_text", "Please enter a valid date.", 25),
     Op("screenshot", ShotPath, 28),
     Op("close", "", 30) >>

\* The driver calls of verify_age_verification.run, in statement order.
\* page.locator (line 23) is lazy: it is resolved by the expect calls.
AgeVerificationOps ==
  << Op("launch", "chromium", 5),
     Op("new_page", "", 6),
     Op("goto", TargetUrl, 7),
     Op("click", "combobox:month", 10),
     Op("click", "option:February", 11),
     Op("click", "combobox:day", 13),
     Op("click", "option:30", 14),
     Op("click", "combobox:year", 16),
     Op("click", "option:2000", 17),
     Op("click", "button:enter", 20),
     Op("expect_visible", "form-error", 24),
     Op("expect_text", "Please enter a valid date.", 25),
     Op("screenshot", ShotPath, 28),
     Op("close", "", 30) >>

Ops(s) == IF s = "verify_page_load" THEN PageLoadOps ELSE AgeVerificationOps

\* The reasons for which a driver call of the given kind raises.
Reasons(kind) ==
  CASE kind = "launch" -> {"DriverError"}
    [] kind = "new_page" -> {"DriverError"}
    [] kind = "goto" -> {"NavigationTimeout"}
    [] kind = "click" -> {"ElementNotFound", "AmbiguousMatch"}
    [] kind = "expect_title" -> {"AssertionFailed"}
    [] kind = "expect_visible" -> {"AssertionFailed"}
    [] kind = "expect_text" -> {"AssertionFailed"}
    [] kind = "screenshot" -> {"IOError"}
    [] OTHER -> {}

\* The page's behaviour in one run: no call raises (0), or call i raises.
Oracles(s) ==
  {<<0, "none">>} \cup
  {<<i, w>> : i \in 1..Len(Ops(s)), w \in UNION {Reasons(k) : k \in
       {"launch", "new_page", "goto", "click", "expect_title",
        "expect_visible", "expect_text", "screenshot"}}}

ValidOracle(s, o) ==
  \/ o = <<0, "none">>
  \/ /\ o[1] \in 1..Len(Ops(s))
     /\ o[2] \in Reasons(Ops(s)[o[1]].kind)

NoExc == [step |-> 0, line |-> 0, reason |-> "none"]

FreshProcess(s, o) ==
  /\ script' = s
  /\ failAt' = o[1]
  /\ failWhy' = o[2]
  /\ proc' = "new"
  /\ runState' = "not_called"
  /\ pc' = 0
  /\ browser' = "none"
  /\ page' = FALSE
  /\ url' = ""
  /\ attempts' = [i \in 1..Len(Ops(s)) |-> 0]
  /\ log' = <<>>
  /\ exc' = NoExc
  /\ exitCode' = -1
  /\ stderr' = <<>>

Init ==
  /\ runNo = 1
  /\ files = [p \in Paths |-> 0]
  /\ results = <<>>
  /\ \E s \in Scripts : \E o \in Oracles(s) :
       /\ ValidOracle(s, o)
       /\ script = s
       /\ failAt = o[1]
       /\ failWhy = o[2]
       /\ attempts = [i \in 1..Len(Ops(s)) |-> 0]
  /\ proc = "new"
  /\ runState = "not_called"
  /\ pc = 0
  /\ browser = "none"
  /\ page = FALSE
  /\ url = ""
  /\ log = <<>>
  /\ exc = NoExc
  /\ exitCode = -1
  /\ stderr = <<>>

----------------------------------------------------------------------------
\* Module entry point.

\* `with sync_playwright() as playwright:` is entered.
EnterWith ==
  /\ proc = "new"
  /\ proc' = "with"
  /\ UNCHANGED <<script, failAt, failWhy, runNo, runState, pc, browser, page,
                 url, attempts, log, files, exc, exitCode, stderr, results>>

\* run(playwright) is called.
CallRun ==
  /\ proc = "with"
  /\ runState = "not_called"
  /\ runState' = "running"
  /\ pc' = 1
  /\ UNCHANGED <<script, failAt, failWhy, runNo, proc, browser, page, url,
                 attempts, log, files, exc, exitCode, stderr, results>>

----------------------------------------------------------------------------
\* The body of run.

Running == runState = "running" /\ pc \in 1..Len(Ops(script))

CurOp == Ops(script)[pc]

AtOp(kind) == Running /\ CurOp.kind = kind

\* The current driver call raises.
Raises == failAt = pc

\* The current driver call is made.
Attempt ==
  /\ attempts' = [attempts EXCEPT ![pc] = @ + 1]
  /\ log' = Append(log, CurOp)

\* The failing call is swallowed and run goes on with the next statement.
FailContinue ==
  /\ Attempt
  /\ pc' = pc + 1
  /\ UNCHANGED <<runState, exc>>

\* The failing call is made again.
FailRetry ==
  /\ Attempt
  /\ UNCHANGED <<pc, runState, exc>>

\* The failing call waits without a timeout and never comes back.
FailHang ==
  UNCHANGED <<attempts, log, pc, runState, exc>>

\* The call raises: nothing in run catches it, so run is left at that line.
Fail ==
  /\ Attempt
  /\ runState' = "raised"
  /\ exc' = [step |-> pc, line |-> CurOp.line, reason |-> failWhy]
  /\ pc' = pc

\* The call returns: run goes on with the next statement.
Succeed ==
  /\ Attempt
  /\ pc' = pc + 1
  /\ UNCHANGED <<runState, exc>>

Outside == <<script, failAt, failWhy, runNo, proc, exitCode, stderr, results>>

\* browser = playwright.chromium.launch(headless=True)
Launch ==
  /\ AtOp("launch")
  /\ IF Raises
       THEN Fail /\ UNCHANGED browser
       ELSE Succeed /\ browser' = "open"
  /\ UNCHANGED <<page, url, files>>
  /\ UNCHANGED Outside

\* page = browser.new_page()
NewPage ==
  /\ AtOp("new_page")
  /\ IF Raises
       THEN Fail /\ UNCHANGED page
       ELSE Succeed /\ page' = TRUE
  /\ UNCHANGED <<browser, url, files>>
  /\ UNCHANGED Outside

\* page.goto("http://localhost:9002")
Goto ==
  /\ AtOp("goto")
  /\ IF Raises
       THEN Fail /\ UNCHANGED url
       ELSE Succeed /\ url' = CurOp.arg
  /\ UNCHANGED <<browser, page, files>>
  /\ UNCHANGED Outside

\* page.get_by_role(...).click()
Click ==
  /\ AtOp("click")
  /\ IF Raises THEN Fail ELSE Succeed
  /\ UNCHANGED <<browser, page, url, files>>
  /\ UNCHANGED Outside

\* expect(page).to_have_title(...), expect(error_message).to_be_visible(),
\* expect(error_message).to_have_text(...)
Expect ==
  /\ \/ AtOp("expect_title")
     \/ AtOp("expect_visible")
     \/ AtOp("expect_text")
  /\ IF Raises THEN Fail ELSE Succeed
  /\ UNCHANGED <<browser, page, url, files>>
  /\ UNCHANGED Outside

\* The file at path p is left untouched.
WriteFileNoop(fs, p, r) == fs

\* The file at path p is created or overwritten by run r.
WriteFile(fs, p, r) == [fs EXCEPT ![p] = r]

\* page.screenshot refusing to overwrite a file that is already there.
ScreenshotNoOverwrite ==
  /\ AtOp("screenshot")
  /\ IF Raises \/ files[CurOp.arg] # 0
       THEN Fail /\ UNCHANGED files
       ELSE Succeed /\ files' = WriteFile(files, CurOp.arg, runNo)
  /\ UNCHANGED <<browser, page, url>>
  /\ UNCHANGED Outside

\* page.screenshot(path="jules-scratch/verification/verification.png")
Screenshot ==
  /\ AtOp("screenshot")
  /\ IF Raises
       THEN Fail /\ UNCHANGED files
       ELSE Succeed /\ files' = WriteFile(files, CurOp.arg, runNo)
  /\ UNCHANGED <<browser, page, url>>
  /\ UNCHANGED Outside

\* browser.close()
Close ==
  /\ AtOp("close")
  /\ Succeed
  /\ browser' = "closed"
  /\ UNCHANGED <<page, url, files>>
  /\ UNCHANGED Outside

\* run falls off its last statement and returns None.
Return ==
  /\ runState = "running"
  /\ pc = Len(Ops(script)) + 1
  /\ runState' = "returned"
  /\ UNCHANGED <<pc, exc, attempts, log, browser, page, url, files>>
  /\ UNCHANGED Outside

----------------------------------------------------------------------------
\* Leaving the with block and the process.

\* The exception is dropped and the process exits 0.
ExitCodeSwallow(rs) == IF rs = "raised" THEN 0 ELSE 0

\* An exception that leaves the module body ends the process with code 1.
ExitCode(rs) == IF rs = "raised" THEN 1 ELSE 0

\* The with block is left (the driver is stopped, which ends a browser that
\* is still open) and the interpreter exits, printing the traceback of an
\* uncaught exception to the standard error stream.
ProcExit ==
  /\ proc = "with"
  /\ runState \in {"returned", "raised"}
  /\ proc' = "exited"
  /\ exitCode' = ExitCode(runState)
  /\ stderr' = IF runState = "raised" THEN <<exc>> ELSE <<>>
  /\ browser' = IF browser = "open" THEN "killed" ELSE browser
  /\ results' = Append(results, [script |-> script, failAt |-> failAt,
                                 failWhy |-> failWhy,
                                 exitCode |-> ExitCode(runState)])
  /\ UNCHANGED <<script, failAt, failWhy, runNo, runState, pc, page, url,
                 attempts, log, files, exc>>

\* One of the scripts is started again as a new process.
NextRun ==
  /\ proc = "exited"
  /\ runNo < MaxRuns
  /\ runNo' = runNo + 1
  /\ \E s \in Scripts : \E o \in Oracles(s) :
       ValidOracle(s, o) /\ FreshProcess(s, o)
  /\ UNCHANGED <<files, results>>

Next ==
  \/ EnterWith
  \/ CallRun
  \/ Launch
  \/ NewPage
  \/ Goto
  \/ Click
  \/ Expect
  \/ Screenshot
  \/ Close
  \/ Return
  \/ ProcExit
  \/ NextRun

Spec == Init /\ [][Next]_vars

\* The script is sequential and every driver call returns or raises within
\* its bounded wait, so a step that can be taken is taken.
FairSpec == Spec /\ WF_vars(Next)

----------------------------------------------------------------------------
\* Properties.

RunExited == runState \in {"returned", "raised"}

ShotIndex == CHOOSE i \in 1..Len(Ops(script)) : Ops(script)[i].kind = "screenshot"

Position(kind) == {n \in 1..Len(log) : log[n].kind = kind}

Executed == [n \in 1..Len(log) |-> <<log[n].kind, log[n].arg>>]

\* C1: once the browser has been launched it is closed before run exits, on
\* every exit path; no run ends with its browser still open.
C1_BrowserClosedOnRunExit == RunExited => browser # "open"

\* C2: run never raises an uncaught error; when a step fails it returns
\* normally with a Failed outcome, the browser released before the return.
C2_RunReturnsNormally ==
  (runState # "running" /\ runState # "not_called") =>
     (runState = "returned" /\ browser \in {"none", "closed"})

\* C3: when step k fails, no step declared after k executes in that run; in
\* particular a failing assertion leaves the later screenshot step unexecuted
\* and no screenshot file is written by that run.
C3_NoStepAfterFailure ==
  \A k \in DOMAIN attempts :
    (failAt = k /\ attempts[k] > 0) =>
       /\ \A j \in DOMAIN attempts : j > k => attempts[j] = 0
       /\ Len(log) = k
       /\ \A p \in Paths : ShotIndex > k => files[p] # runNo

C3_Witness ==
  /\ script = "verify_age_verification"
  /\ runState = "raised"
  /\ exc.line = 25
  /\ exc.reason = "AssertionFailed"
  /\ Position("screenshot") = {}
  /\ attempts[ShotIndex] = 0

ExpectedAgeOrder ==
  << <<"goto", "http://localhost:9002">>,
     <<"click", "combobox:month">>, <<"click", "option:February">>,
     <<"click", "combobox:day">>, <<"click", "option:30">>,
     <<"click", "combobox:year">>, <<"click", "option:2000">>,
     <<"click", "button:enter">>,
     <<"expect_visible", "form-error">>,
     <<"expect_text", "Please enter a valid date.">>,
     <<"screenshot", "jules-scratch/verification/verification.png">> >>

\* C4: the steps execute strictly in the order of the statements, none
\* skipped, repeated or reordered, and a step starts only after the one
\* before it has succeeded; for the age-verification script the order is
\* navigate, month February, day 30, year 2000, click enter, assert the
\* form error visible, assert its text, screenshot.
C4_DeclaredOrder ==
  /\ Len(log) <= Len(Ops(script))
  /\ \A n \in 1..Len(log) : log[n] = Ops(script)[n]
  /\ \A n \in 1..Len(log) : n < Len(log) => failAt # n
  /\ (script = "verify_age_verification" /\ runState = "returned") =>
        SubSeq(Executed, 3, Len(log) - 1) = ExpectedAgeOrder

C4_Witness ==
  /\ script = "verify_age_verification"
  /\ runState = "returned"
  /\ Len(log) = 14

\* C5: when every step succeeds the run ends normally (Passed) and the
\* screenshot file has been written by that run: the screenshot step has
\* executed exactly once, before the browser is closed.
C5_PassedWithScreenshot ==
  (failAt = 0 /\ RunExited) =>
     /\ runState = "returned"
     /\ exc = NoExc
     /\ files[ShotPath] = runNo
     /\ attempts[ShotIndex] = 1
     /\ Cardinality(Position("screenshot")) = 1
     /\ \A m \in Position("screenshot") : \A n \in Position("close") : m < n

C5_Witness ==
  /\ failAt = 0
  /\ runState = "returned"
  /\ files[ShotPath] = runNo
  /\ browser = "closed"

\* C6: the process exit status reflects the outcome: exit code 0 when all
\* steps succeed, a non-zero code when a step fails, with the failing step
\* and its reason on the standard error stream.
C6_ExitStatusReflectsOutcome ==
  proc = "exited" =>
     /\ failAt = 0 => (exitCode = 0 /\ stderr = <<>>)
     /\ failAt # 0 =>
          /\ exitCode # 0
          /\ Len(stderr) = 1
          /\ stderr[1].step = failAt
          /\ stderr[1].line = Ops(script)[failAt].line
          /\ stderr[1].reason = failWhy

C6_Witness ==
  /\ proc = "exited"
  /\ failAt # 0
  /\ exitCode = 1
  /\ Len(stderr) = 1

\* C8: no step is retried: each step is attempted at most once, and a step
\* that has failed (a timeout included) has ended the run.
C8_NoRetry ==
  /\ \A i \in DOMAIN attempts : attempts[i] <= 1
  /\ \A i \in DOMAIN attempts :
       (failAt = i /\ attempts[i] > 0) => runState = "raised"

C8_Witness ==
  /\ runState = "raised"
  /\ exc.reason = "NavigationTimeout"
  /\ attempts[exc.step] = 1

SameRun(a, b) ==
  /\ a.script = b.script
  /\ a.failAt = b.failAt
  /\ a.failWhy = b.failWhy

\* C9: two runs of the same script, each in a fresh process, against the
\* same behaviour of the page end with the same status, whatever an earlier
\* run has left behind.
C9_SameStatusTwice ==
  \A a \in 1..Len(results) : \A b \in 1..Len(results) :
     SameRun(results[a], results[b]) =>
        results[a].exitCode = results[b].exitCode

C9_Witness ==
  /\ Len(results) >= 2
  /\ SameRun(results[1], results[2])
  /\ results[1].failAt = 0
  /\ results[2].exitCode = 0
  /\ files[ShotPath] = 2

\* C10: every run terminates: a running run eventually has all its steps
\* done, or has stopped at its first failing step.
C10_RunTerminates ==
  (runState = "running") ~>
     \/ (failAt = 0 /\ runState = "returned")
     \/ (failAt # 0 /\ runState = "raised" /\ exc.step = failAt)

C10_Witness ==
  /\ runState = "raised"
  /\ exc.reason = "ElementNotFound"
  /\ Len(log) = failAt

====
